---- MODULE Spec2Model ----
(***************************************************************************)
(* FireProx (src/fire.py): the command line front end `main`, the          *)
(* credential resolution of class FireProx (__init__, load_creds), the     *)
(* region specifier (parse_region) and the lifecycle operations            *)
(* (create_api, update_api, delete_api, list_api, prune) against the       *)
(* API-gateway control plane.                                              *)
(*                                                                         *)
(* One action is one command invocation, from argument checking to the     *)
(* process exit.  `apis` is the provider's state; `args`, `log` and `out`  *)
(* are what the latest invocation was given, which remote calls and sleeps *)
(* it made (with the provider's answers), and how it ended.                *)
(*                                                                         *)
(* Strings that the code inspects (URLs and URIs) are sequences of tokens: *)
(* "/" and "{proxy}" are tokens of their own, a host such as "http://x" is *)
(* one token that holds neither.                                           *)
(***************************************************************************)
EXTENDS Integers, Sequences, FiniteSets, TLC

VARIABLES
    apis,         \* gateway definitions of the bound region, in enumeration order
    args,         \* argparse namespace of the latest invocation
    log,          \* remote calls and sleeps of the latest invocation, in order
    out,          \* how the latest invocation ended, and the operation's result
    createdUrls,  \* history: the URLs for which create has reported success
    prevCreated,  \* history: createdUrls as it was when the latest invocation began
    kwargs,       \* the credential and region flags of the latest invocation
    stores,       \* the local files ~/.aws/credentials and ~/.aws/config
    parsed,       \* the latest call of parse_region: arguments, file, result
    remote,       \* gateway definitions of every region a prune may visit
    prune         \* the locals of main while it runs the command 'prune'

vars == <<apis, args, log, out, createdUrls, prevCreated, kwargs, stores,
          parsed, remote, prune>>

----------------------------------------------------------------------------
\* Bounds of the model.

\* The number of definitions in a region from which on import_rest_api
\* answers LimitExceededException (the provider's quota, far larger in fact;
\* a region may hold more definitions than that when an invocation begins).
MaxApis == 2

\* Endpoint identifiers: non-empty opaque strings, here 1..MaxApis+1.  NoId is the empty/absent one.
ApiIds == 1 .. (MaxApis + 1)
NoId == 0

----------------------------------------------------------------------------
\* Strings.

Slash == "/"
ProxyVar == "{proxy}"
HostX == "http://x"
HostY == "http://y"
Marker == "fireprox_"

\* args.url values (non-empty), and the absent one.
Urls == { <<HostX>>, <<HostX, Slash>>, <<HostX, Slash, Slash>>, <<HostY>> }
NoUrl == << >>

\* (variant: the url is used as given)
StripSlashNone(url) == url

\* if url[-1] == '/': url = url[:-1]
StripSlash(url) ==
    IF url[Len(url)] = Slash THEN SubSeq(url, 1, Len(url) - 1) ELSE url

\* str.replace(pat, ''): every non-overlapping occurrence, left to right.
RECURSIVE StrRemove(_, _)
StrRemove(s, pat) ==
    IF Len(s) < Len(pat) THEN s
    ELSE IF SubSeq(s, 1, Len(pat)) = pat
         THEN StrRemove(SubSeq(s, Len(pat) + 1, Len(s)), pat)
         ELSE <<Head(s)>> \o StrRemove(Tail(s), pat)

\* '{}/{}'.format(url, r'{proxy}')
CatchAllUri(url) == url \o <<Slash, ProxyVar>>

\* "{{url}}/"
RootUri(url) == url \o <<Slash>>

\* 'fireprox_{}'.format(tldextract.extract(url).domain)
Title(url) == <<Marker, Head(url)>>

HasMarker(name) == Len(name) > 0 /\ name[1] = Marker

----------------------------------------------------------------------------
\* The provider.

\* A gateway definition: catchAll says that the resource '/{proxy+}' exists,
\* integ that its ANY method has an integration, proxy is that integration's
\* uri, root the uri of the integration of '/', stage that the stage
\* 'fireprox' is deployed.
Definition(id, name, catchAll, integ, root, proxy, stage) ==
    [id |-> id, name |-> name, catchAll |-> catchAll, integ |-> integ,
     root |-> root, proxy |-> proxy, stage |-> stage]

\* What import_rest_api makes of the document of get_template(url).
Imported(id, url) ==
    Definition(id, Title(url), TRUE, TRUE, RootUri(url), CatchAllUri(url), FALSE)

Foreign(id, catchAll, integ) ==
    Definition(id, <<"petstore">>, catchAll, integ, <<HostY, Slash>>,
               IF integ THEN CatchAllUri(<<HostY>>) ELSE << >>, TRUE)

Deployed(d) == [d EXCEPT !.stage = TRUE]

IdsOf(region) == { region[i].id : i \in 1 .. Len(region) }

Exists(region, id) == id \in IdsOf(region)

Lookup(region, id) ==
    region[CHOOSE i \in 1 .. Len(region) : region[i].id = id]

Without(region, id) == SelectSeq(region, LAMBDA d : d.id # id)

\* Answers of the provider: a result, a botocore ClientError with its
\* Error.Code and Error.Message, or an exception that is no ClientError.
Answer(kind, code, message, body) ==
    [kind |-> kind, code |-> code, message |-> message, body |-> body]

Ok(body) == Answer("ok", "", "", body)
ClientError(code, message) == Answer("ClientError", code, message, << >>)
OtherException == Answer("Exception", "", "", << >>)
NoAnswer == Answer("none", "", "", << >>)

NotFound == ClientError("NotFoundException", "Invalid API identifier specified")
Throttled == ClientError("TooManyRequestsException", "Too Many Requests")
BadRequest == ClientError("BadRequestException", "Invalid request")
Denied == ClientError("AccessDeniedException", "User is not authorized")
LimitExceeded == ClientError("LimitExceededException", "Limit exceeded")

\* Failures any call may meet, whatever the state of the region.
Failures == { Throttled, BadRequest, Denied, OtherException }

Call(op, arg, resp) == [op |-> op, arg |-> arg, resp |-> resp]
Sleep(seconds) == Call("sleep", seconds, NoAnswer)

CallsOf(l, op) == SelectSeq(l, LAMBDA c : c.op = op)

----------------------------------------------------------------------------
\* How an invocation ends.

\* normal end: exit status 0
Exit0(value) == [status |-> "exit0", value |-> value]
\* except FireProxException: print(help_text); sys.exit(1)
HelpExit1 == [status |-> "help_exit1", value |-> << >>]
\* an exception main does not catch: traceback
Uncaught(resp) == [status |-> "uncaught", value |-> resp]

Args(command, api_id, url) == [command |-> command, api_id |-> api_id, url |-> url]

\* A flag that was not given (None), an option that a file does not hold.
Absent == ""

\* --profile_name, --access_key, --secret_access_key, --session_token, --region
Kwargs(profile_name, access_key, secret_access_key, session_token, region) ==
    [profile_name |-> profile_name, access_key |-> access_key,
     secret_access_key |-> secret_access_key, session_token |-> session_token,
     region |-> region]

NoKwargs == Kwargs(Absent, Absent, Absent, Absent, Absent)

\* The two files, each a function from the profiles it has a section for:
\* credentials[p] holds the keys of section p, config[p] the region of
\* section 'profile p'.
Stores(credentials, config) == [credentials |-> credentials, config |-> config]

NoStores == Stores(<< >>, << >>)

\* Python values of parse_region: None, a str (its characters), a list of
\* str, and an exception that leaves the function.
PyNone == [type |-> "None", v |-> << >>]
PyStr(s) == [type |-> "str", v |-> s]
PyList(l) == [type |-> "list", v |-> l]
PyRaise(e) == [type |-> "raise", v |-> <<e>>]

\* What os.path.isfile(region) and open(region) find at the path.
File(text) == [isfile |-> TRUE, text |-> text]
NoFile == [isfile |-> FALSE, text |-> << >>]

\* parse_region has not been called.
NoParse ==
    [called |-> FALSE, region |-> PyNone, mode |-> "all", file |-> NoFile,
     result |-> PyNone]

\* No region beside the bound one.
NoRemote == << >>

\* main is not running 'prune'.
NoPrune ==
    [pc |-> "none", region_parsed |-> << >>, at |-> 0, current_apis |-> << >>,
     k |-> 0, choices |-> << >>, printed |-> << >>, retrieved |-> << >>]

Finish(a, l, o, region, created) ==
    /\ args' = a
    /\ log' = l
    /\ out' = o
    /\ apis' = region
    /\ createdUrls' = created
    /\ prevCreated' = createdUrls
    /\ UNCHANGED <<kwargs, stores, parsed, remote, prune>>

----------------------------------------------------------------------------
\* The regions an invocation may find.

InitialRegions ==
    { << >>,
      << Foreign(1, TRUE, TRUE) >>,
      << Foreign(1, TRUE, FALSE) >>,
      << Foreign(1, FALSE, FALSE) >>,
      << Deployed(Imported(1, <<HostX>>)) >>,
      << Deployed(Imported(1, <<HostX>>)), Foreign(2, TRUE, TRUE) >>,
      << Foreign(2, FALSE, FALSE), Deployed(Imported(1, <<HostY>>)) >>,
      << Deployed(Imported(3, <<HostX>>)), Foreign(1, TRUE, FALSE),
         Imported(2, <<HostY>>) >> }

Init ==
    /\ apis \in InitialRegions
    /\ args = Args("none", NoId, NoUrl)
    /\ log = << >>
    /\ out = [status |-> "none", value |-> << >>]
    /\ createdUrls = {}
    /\ prevCreated = {}
    /\ kwargs = NoKwargs
    /\ stores = NoStores
    /\ parsed = NoParse
    /\ remote = NoRemote
    /\ prune = NoPrune

----------------------------------------------------------------------------
\* delete_api (fire.py:308-337).

\* retry = 3
RetryBudget == 3
\* sleep_time = 3
FirstSleep == 3

\* The locals of delete_api before the loop; `broke` says that the loop was
\* left by break.
DeleteStart(region) ==
    [retry |-> RetryBudget, sleep_time |-> FirstSleep, success |-> FALSE,
     error_msg |-> "Generic error", broke |-> FALSE, log |-> << >>,
     apis |-> region]

\* What delete_rest_api may answer: it deletes a definition that exists.
DeleteAnswers(region, api_id) ==
    Failures \cup (IF Exists(region, api_id) THEN {Ok(<< >>)} ELSE {NotFound})

\* (variant: the not-found branch without its break)
OnNotFoundNoBreak(st) ==
    [st EXCEPT !.error_msg = "API not found"]

\* if err.response['Error']['Code'] == 'NotFoundException'
OnNotFound(st) ==
    [st EXCEPT !.error_msg = "API not found", !.broke = TRUE]

\* (variant: the throttling branch without sleep_time *= 2)
OnThrottledFixedDelay(st) ==
    [st EXCEPT !.error_msg = "Too many requests",
               !.log = Append(@, Sleep(st.sleep_time))]

\* elif err.response['Error']['Code'] == 'TooManyRequestsException'
OnThrottled(st) ==
    [st EXCEPT !.error_msg = "Too many requests",
               !.log = Append(@, Sleep(st.sleep_time)),
               !.sleep_time = @ * 2]

\* (variant: the last branch growing the backoff as the throttling one does)
OnClientErrorBackoff(st, r) ==
    [st EXCEPT !.error_msg = r.message, !.sleep_time = @ * 2]

\* else: error_msg = err.response['Error']['Message']
OnClientError(st, r) ==
    [st EXCEPT !.error_msg = r.message]

\* except BaseException
OnException(st) ==
    [st EXCEPT !.error_msg = "Generic error"]

\* (variant: success without error_msg = '')
OnDeletedKeepsMessage(st) ==
    [st EXCEPT !.success = TRUE]

\* else: success = True; error_msg = ''
OnDeleted(st) ==
    [st EXCEPT !.success = TRUE, !.error_msg = ""]

\* finally: retry -= 1
Finally(st) ==
    [st EXCEPT !.retry = @ - 1]

\* (variant: retry >= 0, one pass too many)
LoopConditionOffByOne(st) == st.retry >= 0 /\ ~st.success

\* while retry > 0 and not success
LoopCondition(st) == st.retry > 0 /\ ~st.success

\* One pass of the loop body, the provider answering r.
DeleteAttempt(st, api_id, r) ==
    LET called == [st EXCEPT
                     !.log = Append(@, Call("delete_rest_api", api_id, r)),
                     !.apis = IF r.kind = "ok" THEN Without(@, api_id) ELSE @]
    IN  Finally(
          CASE r.kind = "ok" -> OnDeleted(called)
            [] r.kind = "ClientError" /\ r.code = "NotFoundException" ->
                 OnNotFound(called)
            [] r.kind = "ClientError" /\ r.code = "TooManyRequestsException" ->
                 OnThrottled(called)
            [] r.kind = "ClientError" -> OnClientError(called, r)
            [] OTHER -> OnException(called))

\* The locals at the return statement, for every way the provider may answer.
RECURSIVE DeleteRuns(_, _)
DeleteRuns(st, api_id) ==
    IF LoopCondition(st) /\ ~st.broke
    THEN UNION { DeleteRuns(DeleteAttempt(st, api_id, r), api_id) :
                   r \in DeleteAnswers(st.apis, api_id) }
    ELSE {st}

\* main, command 'delete' (fire.py:510-523), one region.
MainDeleteOf(ids) ==
    \E api_id \in ids :
        LET a == Args("delete", api_id, NoUrl)
        IN  IF api_id = NoId
            THEN Finish(a, << >>, HelpExit1, apis, createdUrls)
            ELSE \E fin \in DeleteRuns(DeleteStart(apis), api_id) :
                    Finish(a, fin.log, Exit0(<<fin.success, fin.error_msg>>),
                           fin.apis, createdUrls)

MainDelete == MainDeleteOf({NoId} \cup ApiIds)

NextDelete == MainDelete

SpecDelete == Init /\ [][NextDelete]_vars

----------------------------------------------------------------------------
\* create_api (fire.py:259-280), get_template (151-257), create_deployment
\* (365-377), store_api (359-363).

\* What import_rest_api may answer: a new definition under an identifier no
\* definition of the region has, unless the region's quota is used up.
ImportAnswers(region) ==
    Failures \cup (IF Len(region) >= MaxApis
                   THEN {LimitExceeded}
                   ELSE { Ok(id) : id \in ApiIds \ IdsOf(region) })

\* What create_deployment may answer.
DeploymentAnswers == Failures \cup {Ok(<<"deployment">>)}

\* f'https://{api_id}.execute-api.{self.region}.amazonaws.com/fireprox/'
InvokeUrl(api_id) == <<"https://", api_id, ".execute-api/fireprox/">>

\* store_api: f'[{created_dt}] ({api_id}) {name} => {proxy_url} ({url})'
StoreApi(api_id, name, url, proxy_url) ==
    [api_id |-> api_id, name |-> name, proxy_url |-> proxy_url, url |-> url]

\* get_template: the url the document is rendered for
TemplateUrl(url) == StripSlash(url)

\* (variant: the deployment leaves the definition without a stage)
WithStageMissing(region, api_id) == region

\* The region with the stage 'fireprox' of api_id deployed.
WithStage(region, api_id) ==
    [i \in 1 .. Len(region) |->
        IF region[i].id = api_id THEN Deployed(region[i]) ELSE region[i]]

\* An outcome of an operation: the calls made, the region left behind, how the
\* invocation ends, and whether the operation reported success.
Outcome(l, region, o, ok) == [log |-> l, apis |-> region, out |-> o, ok |-> ok]

\* (variant: a failed deployment deletes the imported definition again)
AfterImportRollback(region, url, r1) ==
    LET id == r1.body
        c1 == Call("import_rest_api", TemplateUrl(url), r1)
        imported == Append(region, Imported(id, TemplateUrl(url)))
    IN  { IF r2.kind = "ok"
          THEN Outcome(<<c1, Call("create_deployment", id, r2)>>,
                       WithStage(imported, id),
                       Exit0(StoreApi(id, Title(TemplateUrl(url)), url,
                                      InvokeUrl(id))),
                       TRUE)
          ELSE Outcome(<<c1, Call("create_deployment", id, r2),
                         Call("delete_rest_api", id, Ok(<< >>))>>,
                       region, Uncaught(r2), FALSE)
          : r2 \in DeploymentAnswers }

\* create_api after the import was answered r1: create_deployment, store_api.
AfterImport(region, url, r1) ==
    LET id == r1.body
        c1 == Call("import_rest_api", TemplateUrl(url), r1)
        imported == Append(region, Imported(id, TemplateUrl(url)))
    IN  { IF r2.kind = "ok"
          THEN Outcome(<<c1, Call("create_deployment", id, r2)>>,
                       WithStage(imported, id),
                       Exit0(StoreApi(id, Title(TemplateUrl(url)), url,
                                      InvokeUrl(id))),
                       TRUE)
          ELSE Outcome(<<c1, Call("create_deployment", id, r2)>>,
                       imported, Uncaught(r2), FALSE)
          : r2 \in DeploymentAnswers }

\* (variant: create consults a catalog of created URLs and skips the remote
\* work for a known one)
CreateApiByCatalog(region, url) ==
    IF url \in createdUrls
    THEN { Outcome(<< >>, region, Exit0(<< >>), TRUE) }
    ELSE UNION { IF r1.kind = "ok"
                 THEN AfterImport(region, url, r1)
                 ELSE { Outcome(<<Call("import_rest_api", TemplateUrl(url), r1)>>,
                                region, Uncaught(r1), FALSE) }
                 : r1 \in ImportAnswers(region) }

\* create_api(url), url non-empty: every way it may go.
CreateApi(region, url) ==
    UNION { IF r1.kind = "ok"
            THEN AfterImport(region, url, r1)
            ELSE { Outcome(<<Call("import_rest_api", TemplateUrl(url), r1)>>,
                           region, Uncaught(r1), FALSE) }
            : r1 \in ImportAnswers(region) }

\* main, command 'create' (fire.py:500-508).
MainCreateOf(urls) ==
    \E url \in urls :
        LET a == Args("create", NoId, url)
        IN  IF url = NoUrl
            THEN Finish(a, << >>, HelpExit1, apis, createdUrls)
            ELSE \E fin \in CreateApi(apis, url) :
                    Finish(a, fin.log, fin.out, fin.apis,
                           IF fin.ok THEN createdUrls \cup {url}
                                     ELSE createdUrls)

MainCreate == MainCreateOf({NoUrl} \cup Urls)

NextCreate == MainCreate

SpecCreate == Init /\ [][NextCreate]_vars

----------------------------------------------------------------------------
\* update_api (fire.py:283-306), get_resource (379-389).

\* Failures a read may meet, whatever the state of the region.
ReadFailures == { Throttled, OtherException }

\* What get_resources may answer: the resources of a definition that exists.
ResourcesAnswers(region, api_id) ==
    IF Exists(region, api_id)
    THEN ReadFailures \cup {Ok(<<"resources">>)}
    ELSE ReadFailures \cup {NotFound}

\* The identifier of the resource of api_id whose path is '/{proxy+}'.
CatchAllId(api_id) == <<api_id, "/{proxy+}">>
NoResource == << >>

\* get_resource after get_resources was answered ok:
\* for item in items: if item_path == '/{proxy+}': return item_id
\* return None
GetResource(region, api_id) ==
    IF Lookup(region, api_id).catchAll THEN CatchAllId(api_id) ELSE NoResource

\* Target URIs the provider may report back for a patch to `requested` of an
\* integration that held `old`: the patched value, and values that differ
\* from it.
UpdateUris(requested, old) ==
    {requested, old} \cup { CatchAllUri(u) : u \in Urls }
        \cup { CatchAllUri(CatchAllUri(<<HostY>>)), <<HostY>> }

\* What update_integration may answer.
UpdateAnswers(region, api_id, requested) ==
    IF Lookup(region, api_id).integ
    THEN Failures \cup { Ok(uri) :
                          uri \in UpdateUris(requested,
                                             Lookup(region, api_id).proxy) }
    ELSE Failures \cup {NotFound}

\* (variant: the patch reaches the integration of the root path too)
WithProxyAndRoot(region, api_id, uri) ==
    [i \in 1 .. Len(region) |->
        IF region[i].id = api_id
        THEN [region[i] EXCEPT !.proxy = uri,
                               !.root = StrRemove(uri, <<ProxyVar>>)]
        ELSE region[i]]

\* The region with the catch-all integration of api_id holding uri.
WithProxy(region, api_id, uri) ==
    [i \in 1 .. Len(region) |->
        IF region[i].id = api_id THEN [region[i] EXCEPT !.proxy = uri]
                                 ELSE region[i]]

\* return response['uri'].replace('/{proxy}', '') == url
UriMatches(uri, url) == StrRemove(uri, <<Slash, ProxyVar>>) = url

\* update_api(api_id, url), both non-empty: every way it may go.
UpdateApi(region, api_id, url0) ==
    LET url == StripSlash(url0)
        patch == [api_id |-> api_id, value |-> CatchAllUri(url)]
    IN  UNION {
          LET c1 == Call("get_resources", api_id, r1)
          IN  IF r1.kind # "ok"
              THEN { Outcome(<<c1>>, region, Uncaught(r1), FALSE) }
              ELSE IF GetResource(region, api_id) = NoResource
              THEN { Outcome(<<c1>>, region, HelpExit1, FALSE) }
              ELSE { IF r2.kind = "ok"
                     THEN Outcome(<<c1, Call("update_integration", patch, r2)>>,
                                  WithProxy(region, api_id, r2.body),
                                  Exit0(UriMatches(r2.body, url)),
                                  UriMatches(r2.body, url))
                     ELSE Outcome(<<c1, Call("update_integration", patch, r2)>>,
                                  region, Uncaught(r2), FALSE)
                     : r2 \in UpdateAnswers(region, api_id, patch.value) }
          : r1 \in ResourcesAnswers(region, api_id) }

\* main, command 'update' (fire.py:551-563), one region.
MainUpdate ==
    \E api_id \in {NoId} \cup ApiIds, url \in {NoUrl} \cup Urls :
        LET a == Args("update", api_id, url)
        IN  IF api_id = NoId \/ url = NoUrl
            THEN Finish(a, << >>, HelpExit1, apis, createdUrls)
            ELSE \E fin \in UpdateApi(apis, api_id, url) :
                    Finish(a, fin.log, fin.out, fin.apis, createdUrls)

NextUpdate == MainUpdate

SpecUpdate == Init /\ [][NextUpdate]_vars

\* The uri without the places that belong to an occurrence of "/{proxy}".
WithoutCatchAll(uri) ==
    LET InPattern(i) ==
            \/ uri[i] = Slash /\ i < Len(uri) /\ uri[i + 1] = ProxyVar
            \/ uri[i] = ProxyVar /\ i > 1 /\ uri[i - 1] = Slash
        kept == SelectSeq([i \in 1 .. Len(uri) |-> <<i, uri[i]>>],
                          LAMBDA p : ~InPattern(p[1]))
    IN  [k \in 1 .. Len(kept) |-> kept[k][2]]

\* C7 (as claimed): update returns true exactly when the target URI of the
\* update-integration response, "/{proxy}" stripped, equals the url argument.
C7_TrueIffExactUrl ==
    (args.command = "update" /\ Len(log) = 2 /\ log[2].resp.kind = "ok")
    => out = Exit0(WithoutCatchAll(log[2].resp.body) = args.url)

\* C7 (amended): update returns true exactly when the target URI of the
\* update-integration response, "/{proxy}" stripped, equals the url argument
\* without one trailing "/"; for any other response it returns false.
C7_TrueIffUrlWithoutSlash ==
    (args.command = "update" /\ Len(log) = 2 /\ log[2].resp.kind = "ok")
    => LET rest == WithoutCatchAll(log[2].resp.body)
           url == args.url
       IN  out = Exit0(\/ rest \o <<Slash>> = url
                       \/ rest = url /\ url[Len(url)] # Slash)

\* update(id, "http://x/") answered "http://x/{proxy}" returns true.
C7_Witness ==
    /\ args.command = "update"
    /\ args.url = <<HostX, Slash>>
    /\ Len(log) = 2
    /\ log[2].arg.value = <<HostX, Slash, ProxyVar>>
    /\ log[2].resp = Ok(<<HostX, Slash, ProxyVar>>)
    /\ out = Exit0(TRUE)

\* C8 (as claimed): an update of an identifier that names no definition, or a
\* definition without catch-all resource, makes no update-integration call
\* and does not end with an uncaught error.
C8_MissingResourceReported ==
    [][ ( /\ args'.command = "update"
          /\ args'.api_id # NoId
          /\ args'.url # NoUrl
          /\ Len(log') > 0
          /\ log'[1].resp.kind = "ok" \/ log'[1].resp = NotFound
          /\ \/ ~Exists(apis, args'.api_id)
             \/ ~Lookup(apis, args'.api_id).catchAll )
        => ( /\ Len(CallsOf(log', "update_integration")) = 0
             /\ out'.status # "uncaught" ) ]_vars

----------------------------------------------------------------------------
\* list_api (fire.py:340-357), get_integration (391-400).

\* What get_rest_apis may answer: the definitions of the region.
RestApisAnswers(region) == ReadFailures \cup {Ok(region)}

\* What get_integration may answer for the method ANY of resource_id: a
\* missing resourceId fails the validation of the parameters.
IntegrationAnswers(d, resource_id) ==
    IF resource_id = NoResource THEN {OtherException}
    ELSE IF ~d.integ THEN ReadFailures \cup {NotFound}
    ELSE ReadFailures \cup {Ok(d.proxy)}

\* f'[{created_dt}] ({api_id}) {name}: {url} => {proxy_url}'
ListRecord(d, uri) ==
    [api_id |-> d.id, name |-> d.name, url |-> InvokeUrl(d.id),
     proxy_url |-> StrRemove(uri, <<ProxyVar>>)]

\* (variant: only definitions whose name carries the marker are listed)
ListedOnlyMarked(d, deleted_api_id) ==
    d.id # deleted_api_id /\ HasMarker(d.name)

\* if not api_id == deleted_api_id
Listed(d, deleted_api_id) == d.id # deleted_api_id

\* (variant: an item that cannot be read ends the listing)
OnItemErrorAbort(st) == [st EXCEPT !.raised = TRUE]

\* except: pass
OnItemError(st) == st

\* One pass of the loop over the items: get_integration(api_id) and the
\* record, for every way the provider may answer.
ListItem(st, region, d, deleted_api_id) ==
    UNION {
      LET c1 == Call("get_resources", d.id, r1)
          after1 == [st EXCEPT !.log = Append(@, c1)]
      IN  IF r1.kind # "ok"
          THEN { OnItemError(after1) }
          ELSE { LET c2 == Call("get_integration", d.id, r2)
                     after2 == [after1 EXCEPT !.log = Append(@, c2)]
                 IN  IF r2.kind # "ok"
                     THEN OnItemError(after2)
                     ELSE IF Listed(d, deleted_api_id)
                     THEN [after2 EXCEPT
                             !.results = Append(@, ListRecord(d, r2.body))]
                     ELSE after2
                 : r2 \in IntegrationAnswers(d, GetResource(region, d.id)) }
      : r1 \in ResourcesAnswers(region, d.id) }

\* The loop from item i on.
RECURSIVE ListItems(_, _, _, _, _)
ListItems(st, region, items, i, deleted_api_id) ==
    IF i > Len(items) \/ st.raised
    THEN {st}
    ELSE UNION { ListItems(nxt, region, items, i + 1, deleted_api_id) :
                   nxt \in ListItem(st, region, items[i], deleted_api_id) }

\* list_api(deleted_api_id=None, deleting=False): every way it may go.
ListApi(region) ==
    UNION {
      LET c0 == Call("get_rest_apis", NoId, r0)
      IN  IF r0.kind # "ok"
          THEN { Outcome(<<c0>>, region, Uncaught(r0), FALSE) }
          ELSE { IF fin.raised
                 THEN Outcome(fin.log, region, Uncaught(OtherException), FALSE)
                 ELSE Outcome(fin.log, region, Exit0(fin.results), TRUE)
                 : fin \in ListItems([log |-> <<c0>>, results |-> << >>,
                                      raised |-> FALSE],
                                     region, r0.body, 1, NoId) }
      : r0 \in RestApisAnswers(region) }

\* main, command 'list' (fire.py:473-489), one region.
MainList ==
    \E fin \in ListApi(apis) :
        Finish(Args("list", NoId, NoUrl), fin.log, fin.out, fin.apis,
               createdUrls)

NextList == MainList

SpecList == Init /\ [][NextList]_vars

\* The identifiers whose catch-all integration the listing has read.
ReadIds(l) ==
    { l[i].arg : i \in { j \in 1 .. Len(l) :
                           l[j].op = "get_integration" /\ l[j].resp.kind = "ok" } }

\* C9: a list whose enumeration succeeds ends normally whatever the reads of
\* the single definitions answer, and returns one record for each enumerated
\* definition whose catch-all integration was read, in enumeration order, and
\* none for the others.
C9_UnreadableSkipped ==
    (args.command = "list" /\ log[1].resp.kind = "ok")
    => LET readable == SelectSeq(log[1].resp.body,
                                 LAMBDA d : d.id \in ReadIds(log))
       IN  /\ out.status = "exit0"
           /\ Len(out.value) = Len(readable)
           /\ \A k \in 1 .. Len(readable) :
                /\ out.value[k].api_id = readable[k].id
                /\ out.value[k].name = readable[k].name

\* one of three definitions is unreadable: the other two are listed
C9_Witness ==
    /\ args.command = "list"
    /\ Len(apis) = 3
    /\ ~apis[2].integ
    /\ \E i \in 1 .. Len(log) :
          /\ log[i] = Call("get_integration", apis[2].id, NotFound)
    /\ out.status = "exit0"
    /\ Len(out.value) = 2
    /\ out.value[1].api_id = apis[1].id
    /\ out.value[2].api_id = apis[3].id

\* C10 (as claimed): list returns records only for definitions whose name
\* carries the marker.
C10_OnlyMarkedListed ==
    (args.command = "list" /\ out.status = "exit0")
    => \A k \in 1 .. Len(out.value) : HasMarker(out.value[k].name)

\* C10 (amended): list does not look at the names: an enumerated definition
\* whose name lacks the marker has a record in the result whenever its
\* catch-all integration was read.
C10_UnmarkedListedToo ==
    (args.command = "list" /\ log[1].resp.kind = "ok")
    => \A i \in 1 .. Len(log[1].resp.body) :
          LET d == log[1].resp.body[i]
          IN  (~HasMarker(d.name) /\ d.id \in ReadIds(log))
              => \E k \in 1 .. Len(out.value) :
                    /\ out.value[k].api_id = d.id
                    /\ out.value[k].name = d.name

C10_Witness ==
    /\ args.command = "list"
    /\ out.status = "exit0"
    /\ \E k \in 1 .. Len(out.value) :
          /\ out.value[k].name = <<"petstore">>
          /\ out.value[k].proxy_url = <<HostY, Slash>>

----------------------------------------------------------------------------
\* Properties of delete.

DeleteCalls(l) == CallsOf(l, "delete_rest_api")
Sleeps(l) == CallsOf(l, "sleep")

\* The answer is a ClientError that is neither not-found nor throttling.
IsGenericError(r) ==
    /\ r.kind = "ClientError"
    /\ r.code # "NotFoundException"
    /\ r.code # "TooManyRequestsException"

\* C2: a delete whose first delete-definition call is answered "not found"
\* makes exactly that one call, never sleeps, ends normally with the pair
\* (False, 'API not found'), and leaves the definitions of the region as they
\* were.
C2_NotFoundStopsAtOnce ==
    [][ ( /\ args'.command = "delete"
          /\ Len(log') > 0
          /\ log'[1].resp = NotFound )
        => ( /\ Len(DeleteCalls(log')) = 1
             /\ Len(Sleeps(log')) = 0
             /\ out' = Exit0(<<FALSE, "API not found">>)
             /\ apis' = apis ) ]_vars

C2_Witness ==
    /\ args.command = "delete"
    /\ log = << Call("delete_rest_api", args.api_id, NotFound) >>
    /\ out = Exit0(<<FALSE, "API not found">>)
    /\ Len(apis) > 0

\* C3: when the provider throttles the first two delete-definition calls and
\* accepts the third, delete returns success after exactly three calls, with
\* exactly two sleeps, one after each throttled call, the second strictly
\* longer than the first.
C3_ThrottledTwiceThenDeleted ==
    ( /\ args.command = "delete"
      /\ Len(DeleteCalls(log)) >= 3
      /\ DeleteCalls(log)[1].resp = Throttled
      /\ DeleteCalls(log)[2].resp = Throttled
      /\ DeleteCalls(log)[3].resp.kind = "ok" )
    => ( /\ out = Exit0(<<TRUE, "">>)
         /\ Len(DeleteCalls(log)) = 3
         /\ Len(Sleeps(log)) = 2
         /\ [i \in 1 .. Len(log) |-> log[i].op] =
              <<"delete_rest_api", "sleep", "delete_rest_api", "sleep",
                "delete_rest_api">>
         /\ Sleeps(log)[2].arg > Sleeps(log)[1].arg )

C3_Witness ==
    /\ args.command = "delete"
    /\ Len(log) = 5
    /\ log[1].resp = Throttled
    /\ log[3].resp = Throttled
    /\ log[5].resp.kind = "ok"
    /\ out = Exit0(<<TRUE, "">>)
    /\ ~Exists(apis, args.api_id)

\* C4: for every non-empty identifier and every sequence of answers of the
\* provider, delete ends normally with a (success, message) pair after at
\* least one and at most three delete-definition calls.
C4_DeleteBounded ==
    (args.command = "delete" /\ args.api_id # NoId)
    => ( /\ out.status = "exit0"
         /\ Len(out.value) = 2
         /\ out.value[1] \in BOOLEAN
         /\ Len(DeleteCalls(log)) >= 1
         /\ Len(DeleteCalls(log)) <= 3 )

C4_Witness ==
    /\ args.command = "delete"
    /\ Len(DeleteCalls(log)) = 3
    /\ DeleteCalls(log)[1].resp = OtherException
    /\ DeleteCalls(log)[2].resp = Throttled
    /\ DeleteCalls(log)[3].resp = BadRequest
    /\ out.status = "exit0"

\* C5 (as claimed): in a delete every sleep is followed by another
\* delete-definition call, every sleep is twice as long as the one before it,
\* and a delete throttled on all of its three calls returns failure with the
\* throttling message.
C5_SleepBeforeNextAttempt ==
    args.command = "delete"
    => ( /\ \A i \in 1 .. Len(log) :
              log[i].op = "sleep"
              => (i < Len(log) /\ log[i + 1].op = "delete_rest_api")
         /\ \A k \in 2 .. Len(Sleeps(log)) :
              Sleeps(log)[k].arg = 2 * Sleeps(log)[k - 1].arg
         /\ ( ( /\ Len(DeleteCalls(log)) = 3
                /\ \A k \in 1 .. 3 : DeleteCalls(log)[k].resp = Throttled )
              => out = Exit0(<<FALSE, "Too many requests">>) ) )

\* C6: a provider error that is neither not-found nor throttling triggers no
\* sleep and leaves the backoff alone (the k-th sleep of a delete lasts
\* 3 * 2^(k-1) seconds whatever errors came between); a delete whose every
\* call fails this way makes three calls and returns failure with the message
\* of the last one.
C6_GenericErrorRetried ==
    args.command = "delete"
    => ( /\ \A i \in 1 .. Len(log) :
              (log[i].op = "delete_rest_api" /\ IsGenericError(log[i].resp))
              => (i = Len(log) \/ log[i + 1].op = "delete_rest_api")
         /\ \A k \in 1 .. Len(Sleeps(log)) :
              Sleeps(log)[k].arg = 3 * (2 ^ (k - 1))
         /\ ( ( /\ Len(log) > 0
                /\ \A i \in 1 .. Len(log) : IsGenericError(log[i].resp) )
              => ( /\ Len(log) = 3
                   /\ out = Exit0(<<FALSE, log[3].resp.message>>) ) ) )

C6_Witness ==
    /\ args.command = "delete"
    /\ Len(log) = 4
    /\ log[1].resp = BadRequest
    /\ log[2].resp = Throttled
    /\ log[3].op = "sleep" /\ log[3].arg = 3
    /\ log[4].resp = Denied
    /\ out = Exit0(<<FALSE, Denied.message>>)

----------------------------------------------------------------------------
\* FireProx.__init__ (fire.py:43-58), _try_instance_profile (64-81),
\* load_creds (83-146).

\* config[config_profile_section].get('region', 'us-east-1')
DefaultRegion == "us-east-1"
\* self.client._client_config.region_name of a client built without region
AmbientRegion == "ambient"

\* A section of ~/.aws/credentials; aws_session_token Absent: no such option.
CredEntry(key, secret, token) ==
    [aws_access_key_id |-> key, aws_secret_access_key |-> secret,
     aws_session_token |-> token]

\* A section 'profile p' of ~/.aws/config; region Absent: no such option.
ConfigEntry(region) == [region |-> region]

\* self.client.get_account() of a client built from `source` for `region`.
Probe(source, region, r) ==
    Call("get_account", [source |-> source, region |-> region], r)

\* What building the client and get_account may do: answer, or raise.
ProbeAnswers == { Ok(<<"account">>), Denied, OtherException }

\* How the construction of a FireProx object ends: with a client of a
\* source, bound to a region, or by raising FireProxException.
Ready(source, region, l, st) ==
    [state |-> "ready", source |-> source, region |-> region, log |-> l,
     stores |-> st]
Raised(l, st) ==
    [state |-> "raised", source |-> Absent, region |-> Absent, log |-> l,
     stores |-> st]
\* load_creds returned False
NotLoaded(l, st) ==
    [state |-> "false", source |-> Absent, region |-> Absent, log |-> l,
     stores |-> st]

\* f with f[k] = v, k in its domain or not.
Put(f, k, v) == [x \in DOMAIN f \cup {k} |-> IF x = k THEN v ELSE f[x]]

\* config[config_profile_section]['region'] = self.region; config.write(file)
WriteConfig(config, kw, region) ==
    Put(config, kw.profile_name, ConfigEntry(region))

\* (variant: the session token of the section is left as it was when none
\* is supplied)
WriteCredentialsKeepToken(credentials, kw) ==
    Put(credentials, kw.profile_name,
        CredEntry(kw.access_key, kw.secret_access_key,
                  IF kw.session_token # Absent THEN kw.session_token
                  ELSE IF kw.profile_name \in DOMAIN credentials
                       THEN credentials[kw.profile_name].aws_session_token
                       ELSE Absent))

\* credentials[profile]['aws_access_key_id'] = ...; remove_option(...,
\* 'aws_session_token') when no token is supplied; credentials.write(file)
WriteCredentials(credentials, kw) ==
    Put(credentials, kw.profile_name,
        CredEntry(kw.access_key, kw.secret_access_key, kw.session_token))

\* if self.access_key and self.secret_access_key: ... (fire.py:113-146)
KeysBranch(kw, st, region, l) ==
    IF kw.access_key # Absent /\ kw.secret_access_key # Absent
    THEN { IF r.kind = "ok"
           THEN LET bound == IF region = Absent THEN AmbientRegion ELSE region
                IN  Ready("keys", bound, Append(l, Probe("keys", region, r)),
                          IF kw.profile_name # Absent
                          THEN Stores(WriteCredentials(st.credentials, kw),
                                      WriteConfig(st.config, kw, bound))
                          ELSE st)
           ELSE NotLoaded(Append(l, Probe("keys", region, r)), st)
           : r \in ProbeAnswers }
    ELSE { NotLoaded(l, st) }

\* (variant: a profile whose probe fails ends the resolution)
OnProfileFailureAbort(kw, st, region, l) == { NotLoaded(l, st) }

\* except: pass  (fire.py:110-111): on to the explicit keys
OnProfileFailure(kw, st, region, l) == KeysBranch(kw, st, region, l)

\* if self.profile_name in credentials: ... (fire.py:97-111)
ProfileBranch(kw, st) ==
    IF kw.profile_name \in DOMAIN st.credentials
    THEN IF kw.profile_name \notin DOMAIN st.config /\ kw.region = Absent
         THEN { Raised(<< >>, st) }
         ELSE LET stored == st.config[kw.profile_name].region
                  region == IF kw.region # Absent THEN kw.region
                            ELSE IF stored # Absent THEN stored
                            ELSE DefaultRegion
              IN  UNION { IF r.kind = "ok"
                          THEN { Ready("profile", region,
                                       <<Probe("profile", region, r)>>, st) }
                          ELSE OnProfileFailure(kw, st, region,
                                                <<Probe("profile", region, r)>>)
                          : r \in ProbeAnswers }
    ELSE KeysBranch(kw, st, kw.region, << >>)

\* _try_instance_profile
TryInstanceProfile(kw, st) ==
    { IF r.kind = "ok"
      THEN Ready("instance",
                 IF kw.region = Absent THEN AmbientRegion ELSE kw.region,
                 <<Probe("instance", kw.region, r)>>, st)
      ELSE NotLoaded(<<Probe("instance", kw.region, r)>>, st)
      : r \in ProbeAnswers }

\* if not any([self.access_key, self.secret_access_key, self.profile_name])
NothingSupplied(kw) ==
    /\ kw.access_key = Absent
    /\ kw.secret_access_key = Absent
    /\ kw.profile_name = Absent

\* load_creds
LoadCreds(kw, st) ==
    IF NothingSupplied(kw) THEN TryInstanceProfile(kw, st)
    ELSE ProfileBranch(kw, st)

\* if self.access_key and self.secret_access_key: if not self.region: error
KeysWithoutRegion(kw) ==
    /\ kw.access_key # Absent
    /\ kw.secret_access_key # Absent
    /\ kw.region = Absent

\* FireProx(**vars(args)): every way the construction may go.
NewFireProx(kw, st) ==
    IF KeysWithoutRegion(kw) THEN { Raised(<< >>, st) }
    ELSE { IF o.state = "false" THEN Raised(o.log, o.stores) ELSE o
           : o \in LoadCreds(kw, st) }

\* The flags an invocation may be given.
Profiles == {"p"}
KwargsSet ==
    { Kwargs(pn, ak, sk, tok, rg) :
        pn \in {Absent} \cup Profiles, ak \in {Absent, "AKIA"},
        sk \in {Absent, "secret"}, tok \in {Absent, "token"},
        rg \in {Absent, "r1"} }

\* The files an invocation may find.
OldEntry == CredEntry("AKIAOLD", "oldsecret", "oldtoken")
InitialStores ==
    { NoStores,
      Stores([x \in {"p"} |-> OldEntry], [x \in {"p"} |-> ConfigEntry("r2")]),
      Stores([x \in {"p"} |-> OldEntry], [x \in {"p"} |-> ConfigEntry(Absent)]),
      Stores([x \in {"p"} |-> OldEntry], << >>),
      Stores(<< >>, [x \in {"p"} |-> ConfigEntry("r2")]),
      Stores([x \in {"p", "q"} |-> OldEntry],
             [x \in {"p", "q"} |-> ConfigEntry("r2")]),
      Stores([x \in {"q"} |-> OldEntry], [x \in {"q"} |-> ConfigEntry("r2")]) }

\* The handle of a constructed object.
Handle(o) == [status |-> "ready", value |-> [source |-> o.source, region |-> o.region]]

\* The construction of the FireProx object of an invocation; main turns
\* FireProxException into the help text and exit status 1.
Resolve ==
    \E kw \in KwargsSet :
        \E o \in NewFireProx(kw, stores) :
            /\ kwargs' = kw
            /\ stores' = o.stores
            /\ log' = o.log
            /\ out' = IF o.state = "raised" THEN HelpExit1 ELSE Handle(o)
            /\ UNCHANGED <<apis, args, createdUrls, prevCreated, parsed,
                           remote, prune>>

InitCreds ==
    /\ apis = << >>
    /\ args = Args("none", NoId, NoUrl)
    /\ log = << >>
    /\ out = [status |-> "none", value |-> << >>]
    /\ createdUrls = {}
    /\ prevCreated = {}
    /\ kwargs = NoKwargs
    /\ stores \in InitialStores
    /\ parsed = NoParse
    /\ remote = NoRemote
    /\ prune = NoPrune

NextCreds == Resolve

SpecCreds == InitCreds /\ [][NextCreds]_vars

----------------------------------------------------------------------------
\* Credential resolution, claims C14, C15, C16.

Probes(l) == CallsOf(l, "get_account")
ProbeSources(l) == [i \in 1 .. Len(Probes(l)) |-> Probes(l)[i].arg.source]
ProbedFrom(l, source) == \E i \in 1 .. Len(Probes(l)) : Probes(l)[i].arg.source = source
ProbeFailed(l, source) ==
    \E i \in 1 .. Len(Probes(l)) :
        Probes(l)[i].arg.source = source /\ Probes(l)[i].resp.kind # "ok"
LastProbeOk(l) == Probes(l) # << >> /\ Probes(l)[Len(Probes(l))].resp.kind = "ok"
KeysSupplied(kw) == kw.access_key # Absent /\ kw.secret_access_key # Absent
InStore(kw, st) == kw.profile_name \in DOMAIN st.credentials

\* C14: in every resolution the sources are probed in the order ambient,
\* profile, explicit keys and the first probe that succeeds ends it and is the
\* source of the handle: the ambient credentials are probed only when no key,
\* secret or profile name is supplied; a profile of the credentials store is
\* probed first; when its probe fails and key and secret are supplied the
\* keys are probed next; keys are probed only when the profile is not in the
\* store or its probe failed; with no successful probe the resolution ends
\* in the credential error.
C14_Precedence ==
    [][ LET kw == kwargs'
            l == log'
        IN  /\ ProbeSources(l) \in { << >>, <<"instance">>, <<"profile">>,
                                     <<"keys">>, <<"profile", "keys">> }
            /\ ProbedFrom(l, "instance") => NothingSupplied(kw)
            /\ ProbedFrom(l, "profile") => InStore(kw, stores)
            /\ ProbedFrom(l, "keys") =>
                  /\ KeysSupplied(kw)
                  /\ ~InStore(kw, stores) \/ ProbeFailed(l, "profile")
            /\ ProbeFailed(l, "profile") /\ KeysSupplied(kw) => ProbedFrom(l, "keys")
            /\ \A i \in 1 .. Len(Probes(l)) - 1 : Probes(l)[i].resp.kind # "ok"
            /\ LastProbeOk(l) =>
                  /\ out'.status = "ready"
                  /\ out'.value.source = Probes(l)[Len(Probes(l))].arg.source
            /\ ~LastProbeOk(l) => out'.status = "help_exit1"
      ]_vars

\* A profile of the store was probed and failed, the keys were probed next
\* and gave the handle.
C14_Witness ==
    /\ ProbeSources(log) = <<"profile", "keys">>
    /\ log[1].resp.kind # "ok"
    /\ out.status = "ready"
    /\ out.value.source = "keys"

\* The profile named has a section in both files, so that a region can be
\* read for it (the stored one, or the default).
RegionDerivable(kw, st) ==
    /\ kw.profile_name \in DOMAIN st.credentials
    /\ kw.profile_name \in DOMAIN st.config

\* C15: when key and secret are supplied without a region, the resolution
\* ends in the configuration error without any probe exactly when no region
\* can be derived from the profile; with the profile in both files the
\* resolution goes on to probe with the profile's region.
C15_RegionFromProfile ==
    [][ KeysWithoutRegion(kwargs') =>
          IF RegionDerivable(kwargs', stores)
          THEN /\ log' # << >>
               /\ log'[1].arg.region \in {"r2", DefaultRegion}
          ELSE out'.status = "help_exit1" /\ log' = << >>
      ]_vars

\* The resolution of this step probed the explicit keys with success while
\* a profile name was supplied.
KeysVerifiedForProfile(kw, l) ==
    /\ kw.profile_name # Absent
    /\ LastProbeOk(l)
    /\ Probes(l)[Len(Probes(l))].arg.source = "keys"

\* C16: a resolution changes the two files only when it verified explicit
\* keys by a successful probe while a profile name was supplied; no
\* resolution removes a section; on the writing path the credentials file
\* holds the supplied key and secret for the profile, with the session token
\* supplied or none, the config file holds the region of the handle, and
\* the sections of other profiles are as before.
C16_StoresFrame ==
    [][ LET kw == kwargs'
            p == kwargs'.profile_name
        IN  /\ DOMAIN stores.credentials \subseteq DOMAIN stores'.credentials
            /\ DOMAIN stores.config \subseteq DOMAIN stores'.config
            /\ ~KeysVerifiedForProfile(kw, log') => stores' = stores
            /\ KeysVerifiedForProfile(kw, log') =>
                  /\ DOMAIN stores'.credentials = DOMAIN stores.credentials \cup {p}
                  /\ DOMAIN stores'.config = DOMAIN stores.config \cup {p}
                  /\ stores'.credentials[p] =
                        CredEntry(kw.access_key, kw.secret_access_key, kw.session_token)
                  /\ stores'.config[p] = ConfigEntry(out'.value.region)
                  /\ \A q \in DOMAIN stores.credentials \ {p} :
                        stores'.credentials[q] = stores.credentials[q]
                  /\ \A q \in DOMAIN stores.config \ {p} :
                        stores'.config[q] = stores.config[q]
      ]_vars

\* Keys verified for profile p without a session token: the section of p
\* holds the new keys and no token, the section of q is the old one.
C16_Witness ==
    /\ KeysVerifiedForProfile(kwargs, log)
    /\ kwargs.session_token = Absent
    /\ "q" \in DOMAIN stores.credentials
    /\ stores.credentials["p"] = CredEntry("AKIA", "secret", Absent)
    /\ stores.credentials["q"] = OldEntry
    /\ ProbeSources(log) = <<"profile", "keys">>

----------------------------------------------------------------------------
\* parse_region (fire.py:428-459).

\* Longest region specifier and longest file text, in characters.
MaxLen == 3

Comma == ","
Space == " "
Newline == "\n"
Whitespace == {Space, Newline}

Range(f) == { f[i] : i \in DOMAIN f }

\* Index of the first c in s; 0 when there is none.
Find(s, c) ==
    IF c \in Range(s) THEN CHOOSE i \in 1 .. Len(s) : s[i] = c /\ \A j \in 1 .. i - 1 : s[j] # c
    ELSE 0

\* str.split(sep=sep)
RECURSIVE Split(_, _)
Split(s, sep) ==
    IF Find(s, sep) = 0 THEN <<s>>
    ELSE <<SubSeq(s, 1, Find(s, sep) - 1)>>
         \o Split(SubSeq(s, Find(s, sep) + 1, Len(s)), sep)

\* f.readlines(): every line with its newline, the last one maybe without
RECURSIVE ReadLines(_)
ReadLines(text) ==
    IF text = << >> THEN << >>
    ELSE IF Find(text, Newline) = 0 THEN <<text>>
    ELSE <<SubSeq(text, 1, Find(text, Newline))>>
         \o ReadLines(SubSeq(text, Find(text, Newline) + 1, Len(text)))

RECURSIVE LStrip(_)
LStrip(s) ==
    IF s # << >> /\ Head(s) \in Whitespace THEN LStrip(Tail(s)) ELSE s

RECURSIVE RStrip(_)
RStrip(s) ==
    IF s # << >> /\ s[Len(s)] \in Whitespace THEN RStrip(SubSeq(s, 1, Len(s) - 1))
    ELSE s

\* str.strip()
Strip(s) == LStrip(RStrip(s))

\* [reg.strip() for reg in f.readlines()]
FileRegions(text) ==
    [i \in 1 .. Len(ReadLines(text)) |-> Strip(ReadLines(text)[i])]

\* random.choice(regions): any element; IndexError on an empty list
RandomChoice(regions) ==
    IF regions = << >> THEN { PyRaise("IndexError") }
    ELSE { PyStr(regions[i]) : i \in 1 .. Len(regions) }

\* parse_region(region, mode), with what is found at the path `region`:
\* every value it may return, or the exception it raises.
ParseRegion(region, mode, file) ==
    IF region.type = "None" THEN { PyNone }
    ELSE IF mode \notin {"all", "random"} THEN { PyRaise("ValueError") }
    ELSE IF region.type = "str"
    THEN IF file.isfile
         THEN IF mode = "random" THEN RandomChoice(FileRegions(file.text))
              ELSE { PyList(FileRegions(file.text)) }
         ELSE IF Comma \in Range(region.v)
         THEN IF mode = "random" THEN RandomChoice(Split(region.v, Comma))
              ELSE { PyList(Split(region.v, Comma)) }
         ELSE { region }
    ELSE IF mode = "all" THEN { region }
    ELSE RandomChoice(region.v)

StringsUpTo(S, n) == UNION { [1 .. k -> S] : k \in 0 .. n }

\* The specifiers, modes and files a call may be given.
RegionSpecs ==
    {PyNone} \cup { PyStr(s) : s \in StringsUpTo({"a", "b", Comma}, MaxLen) }
              \cup { PyList(<<<<"a">>, <<"b">>>>), PyList(<<<<"b">>>>) }
Modes == {"all", "random", "first"}
Files == {NoFile} \cup { File(t) : t \in StringsUpTo({"a", Space, Newline}, MaxLen) }

\* One call of parse_region; a behaviour holds one call.
Parse ==
    /\ ~parsed.called
    /\ \E region \in RegionSpecs, mode \in Modes, file \in Files :
          /\ file.isfile => region.type = "str" /\ region.v # << >>
          /\ \E result \in ParseRegion(region, mode, file) :
                parsed' = [called |-> TRUE, region |-> region, mode |-> mode,
                           file |-> file, result |-> result]
    /\ UNCHANGED <<apis, args, log, out, createdUrls, prevCreated, kwargs,
                   stores, remote, prune>>

InitParse ==
    /\ apis = << >>
    /\ args = Args("none", NoId, NoUrl)
    /\ log = << >>
    /\ out = [status |-> "none", value |-> << >>]
    /\ createdUrls = {}
    /\ prevCreated = {}
    /\ kwargs = NoKwargs
    /\ stores = NoStores
    /\ parsed = NoParse
    /\ remote = NoRemote
    /\ prune = NoPrune

NextParse == Parse

SpecParse == InitParse /\ [][NextParse]_vars

\* The lines of a text that are not empty once stripped, in file order.
NonEmptyLines(text) ==
    SelectSeq([i \in 1 .. Len(Split(text, Newline)) |-> Strip(Split(text, Newline)[i])],
              LAMBDA line : line # << >>)

\* The list the specifier stands for: the non-empty lines of the file it
\* names, else its comma-separated components.
RegionList(region, file) ==
    IF file.isfile THEN NonEmptyLines(file.text) ELSE Split(region.v, Comma)

\* C17: parse_region(None) is None; for a specifier that names a file or
\* holds a comma, mode "all" returns the list the specifier stands for (the
\* components in written order, or the non-empty lines of the file in file
\* order) and mode "random" returns one element of that list when it has
\* one; any other specifier is returned as it is in both modes.
C17_ParseRegion ==
    parsed.called /\ parsed.mode \in {"all", "random"} =>
        IF parsed.region.type = "None" THEN parsed.result.type = "None"
        ELSE IF parsed.region.type # "str" THEN TRUE
        ELSE IF parsed.file.isfile \/ Comma \in Range(parsed.region.v)
        THEN IF parsed.mode = "all"
             THEN /\ parsed.result.type = "list"
                  /\ parsed.result.v = RegionList(parsed.region, parsed.file)
             ELSE RegionList(parsed.region, parsed.file) # << >> =>
                  /\ parsed.result.type = "str"
                  /\ \E i \in 1 .. Len(RegionList(parsed.region, parsed.file)) :
                        RegionList(parsed.region, parsed.file)[i] = parsed.result.v
        ELSE parsed.result.type = "str" /\ parsed.result.v = parsed.region.v

----------------------------------------------------------------------------
\* main, command 'prune' (fire.py:525-549), list_api(deleting=True) (340-344).
\* The command runs in steps: the parsing of --region, each prompt, each
\* region's enumeration and each item's delete_api.

\* Most prompts that are answered with something else than yes or no.
MaxPrompts == 2

\* The name a region specifier spells.
RegionName(chars) ==
    IF chars = <<"a">> THEN "a" ELSE IF chars = <<"b">> THEN "b" ELSE "?"

\* AWS_DEFAULT_REGIONS, two regions long
AWS_DEFAULT_REGIONS == <<"a", "b">>

\* --region of a prune
PruneSpecs ==
    { PyNone, PyStr(<<"b">>), PyStr(<<"a", Comma, "b">>), PyStr(<<"b", Comma, "a">>) }

\* What may be typed at the prompt.
Typed == {"", "y", "Y", "n", "N", "x"}

\* (variant: an empty answer stands for yes)
OrDefaultYes(typed) == IF typed = "" THEN "Y" ELSE typed

\* input(...) or 'N'
OrDefault(typed) == IF typed = "" THEN "N" ELSE typed

\* choice.upper()
Upper(choice) ==
    IF choice = "y" THEN "Y" ELSE IF choice = "n" THEN "N"
    ELSE IF choice = "x" THEN "X" ELSE choice

\* print(f'Deleting {api["id"]} => Success!') or '... => Failed! ({msg})'
Report(region, api_id, result, msg) ==
    [region |-> region, api_id |-> api_id, result |-> result, msg |-> msg]

\* print(f'No API found')
NoApiFound(region) == Report(region, NoId, TRUE, "No API found")

\* list_api(deleting=True): return response['items']
ListApiDeleting(items) == items

\* (variant: a failed delete ends the command)
ContinueAfterSuccessOnly(result) == result

\* The loop over current_apis goes on whatever delete_api returned.
ContinueAfter(result) == TRUE

\* The locals once the items of region_parsed[at] are done with: the next
\* region, or the end of the command.
NextRegion(pr) ==
    IF pr.at < Len(pr.region_parsed)
    THEN [pr EXCEPT !.pc = "region", !.at = @ + 1, !.current_apis = << >>, !.k = 0]
    ELSE [pr EXCEPT !.pc = "done", !.current_apis = << >>, !.k = 0]

\* region_parsed = parse_region(args.region), the defaults for None, a
\* single region as a list of one.
PruneStart ==
    /\ prune.pc = "none"
    /\ \E region \in PruneSpecs :
         \E rp \in ParseRegion(region, "all", NoFile) :
            /\ parsed' = [called |-> TRUE, region |-> region, mode |-> "all",
                          file |-> NoFile, result |-> rp]
            /\ prune' = [prune EXCEPT
                  !.pc = "ask",
                  !.region_parsed =
                      IF rp.type = "None" THEN AWS_DEFAULT_REGIONS
                      ELSE IF rp.type = "str" THEN <<RegionName(rp.v)>>
                      ELSE [i \in 1 .. Len(rp.v) |-> RegionName(rp.v[i])]]
    /\ args' = Args("prune", NoId, NoUrl)
    /\ log' = << >>
    /\ UNCHANGED <<apis, out, createdUrls, prevCreated, kwargs, stores, remote>>

\* One pass of `while True`: the prompt, the default, the test of the answer.
PruneAsk ==
    /\ prune.pc = "ask"
    /\ \E typed \in Typed :
         LET choice == OrDefault(typed)
             asked == [prune EXCEPT !.choices = Append(@, typed)]
         IN  IF Upper(choice) \in {"Y", "N"}
             THEN IF Upper(choice) = "Y"
                  THEN /\ prune' = [asked EXCEPT !.pc = "region", !.at = 1]
                       /\ out' = out
                  ELSE /\ prune' = [asked EXCEPT !.pc = "done"]
                       /\ out' = Exit0(asked.printed)
             ELSE /\ Len(prune.choices) < MaxPrompts
                  /\ prune' = asked
                  /\ out' = out
    /\ log' = << >>
    /\ UNCHANGED <<apis, args, createdUrls, prevCreated, kwargs, stores, parsed,
                   remote>>

\* The head of one pass of `for region in region_parsed`: FireProx(...),
\* list_api(deleting=True), 'No API found' for an empty region.
PruneRegion ==
    /\ prune.pc = "region"
    /\ LET region == prune.region_parsed[prune.at]
       IN  \E o \in NewFireProx([kwargs EXCEPT !.region = region], stores) :
             /\ stores' = o.stores
             /\ IF o.state = "raised"
                THEN /\ log' = o.log
                     /\ out' = HelpExit1
                     /\ prune' = [prune EXCEPT !.pc = "done"]
                ELSE \E r0 \in RestApisAnswers(remote[region]) :
                       /\ log' = Append(o.log, Call("get_rest_apis", NoId, r0))
                       /\ IF r0.kind # "ok"
                          THEN /\ out' = Uncaught(r0)
                               /\ prune' = [prune EXCEPT !.pc = "done"]
                          ELSE LET got == [prune EXCEPT
                                             !.current_apis = ListApiDeleting(r0.body),
                                             !.retrieved = Append(@,
                                                 [region |-> region,
                                                  items |-> [i \in 1 .. Len(ListApiDeleting(r0.body)) |->
                                                               ListApiDeleting(r0.body)[i].id],
                                                  held |-> [i \in 1 .. Len(remote[region]) |-> remote[region][i].id]])]
                               IN  IF Len(got.current_apis) = 0
                                   THEN /\ prune' = NextRegion([got EXCEPT !.printed = Append(@, NoApiFound(region))])
                                        /\ out' = IF prune'.pc = "done" THEN Exit0(prune'.printed) ELSE out
                                   ELSE /\ prune' = [got EXCEPT !.pc = "delete", !.k = 1]
                                        /\ out' = out
    /\ UNCHANGED <<apis, args, createdUrls, prevCreated, kwargs, parsed, remote>>

\* One pass of `for api in current_apis`: delete_api and its report.
PruneDelete ==
    /\ prune.pc = "delete"
    /\ LET region == prune.region_parsed[prune.at]
           api_id == prune.current_apis[prune.k].id
       IN  \E fin \in DeleteRuns(DeleteStart(remote[region]), api_id) :
             LET told == [prune EXCEPT !.printed =
                            Append(@, Report(region, api_id, fin.success, fin.error_msg))]
             IN  /\ log' = fin.log
                 /\ remote' = [remote EXCEPT ![region] = fin.apis]
                 /\ prune' = IF ~ContinueAfter(fin.success)
                             THEN [told EXCEPT !.pc = "done"]
                             ELSE IF prune.k < Len(prune.current_apis)
                             THEN [told EXCEPT !.k = @ + 1]
                             ELSE NextRegion(told)
                 /\ out' = IF prune'.pc = "done" THEN Exit0(prune'.printed) ELSE out
    /\ UNCHANGED <<apis, args, createdUrls, prevCreated, kwargs, stores, parsed>>

\* The regions a prune may find.
InitialRemotes ==
    { [r \in {"a", "b"} |->
         IF r = "a" THEN <<Deployed(Imported(1, <<HostX>>)), Foreign(2, TRUE, TRUE)>>
         ELSE <<Deployed(Imported(1, <<HostY>>))>>],
      [r \in {"a", "b"} |->
         IF r = "a" THEN << >> ELSE <<Foreign(2, FALSE, FALSE), Imported(1, <<HostX>>)>>] }

InitPrune ==
    /\ apis = << >>
    /\ args = Args("none", NoId, NoUrl)
    /\ log = << >>
    /\ out = [status |-> "none", value |-> << >>]
    /\ createdUrls = {}
    /\ prevCreated = {}
    /\ kwargs = NoKwargs
    /\ stores = NoStores
    /\ parsed = NoParse
    /\ remote \in InitialRemotes
    /\ prune = NoPrune

NextPrune == PruneStart \/ PruneAsk \/ PruneRegion \/ PruneDelete

SpecPrune == InitPrune /\ [][NextPrune]_vars

----------------------------------------------------------------------------
\* prune, claims C11 and C12.

LastTyped(pr) == pr.choices[Len(pr.choices)]
AnsweredYes(pr) == pr.choices # << >> /\ LastTyped(pr) \in {"y", "Y"}

\* C11: prune makes no remote call (no get_account probe, no get_rest_apis,
\* no delete_rest_api) and changes no region before the prompt has been
\* answered yes; the answer no, or an empty one, ends the command with
\* nothing deleted; any other answer leads to the prompt again.
C11_NothingBeforeYes ==
    [][ /\ prune.pc \in {"none", "ask"} => log' = << >> /\ remote' = remote
        /\ log' # << >> \/ remote' # remote => AnsweredYes(prune)
        /\ prune.pc = "ask" /\ prune'.choices # prune.choices =>
              IF LastTyped(prune') \in {"y", "Y"} THEN prune'.pc = "region"
              ELSE IF LastTyped(prune') \in {"n", "N", ""}
              THEN prune'.pc = "done" /\ out'.status = "exit0"
              ELSE prune'.pc = "ask"
      ]_vars

\* The prompt was answered with something else, then with nothing: the
\* command has ended, no call was made and both regions hold what they held.
C11_Witness ==
    /\ prune.pc = "done"
    /\ prune.choices = <<"x", "">>
    /\ log = << >>
    /\ out.status = "exit0"
    /\ remote \in InitialRemotes
    /\ remote["a"] # << >>

\* The reports of the items of retrieved[i], one for each, in order.
RECURSIVE ReportedIds(_, _)
ReportedIds(printed, region) ==
    IF printed = << >> THEN << >>
    ELSE IF Head(printed).region = region /\ Head(printed).api_id # NoId
    THEN <<Head(printed).api_id>> \o ReportedIds(Tail(printed), region)
    ELSE ReportedIds(Tail(printed), region)

\* C12: in a confirmed prune the regions are visited in the order of the
\* set; the enumeration of a region returns every definition it holds,
\* marked or not; each pass over an item makes at least one delete_rest_api
\* call for it and prints one report, success exactly when the definition
\* is gone; whatever the result, the next item of the region follows, and
\* after the last item the next region; a prune that ends normally has
\* visited every region and reported every enumerated item in order.
C12_EachItemAttempted ==
    [][ LET region == prune.region_parsed[prune.at]
            n == Len(prune'.retrieved)
        IN  /\ \A i \in 1 .. n :
                  /\ prune'.retrieved[i].region = prune'.region_parsed[i]
                  /\ prune'.retrieved[i].items = prune'.retrieved[i].held
            /\ prune.pc = "delete" =>
                  LET api_id == prune.current_apis[prune.k].id
                  IN  /\ \E i \in 1 .. Len(log') :
                            log'[i].op = "delete_rest_api" /\ log'[i].arg = api_id
                      /\ Len(prune'.printed) = Len(prune.printed) + 1
                      /\ prune'.printed[Len(prune'.printed)].region = region
                      /\ prune'.printed[Len(prune'.printed)].api_id = api_id
                      /\ prune'.printed[Len(prune'.printed)].result
                            <=> ~Exists(remote'[region], api_id)
                      /\ IF prune.k < Len(prune.current_apis)
                         THEN prune'.pc = "delete" /\ prune'.k = prune.k + 1
                                 /\ prune'.at = prune.at
                         ELSE IF prune.at < Len(prune.region_parsed)
                         THEN prune'.pc = "region" /\ prune'.at = prune.at + 1
                         ELSE prune'.pc = "done" /\ out'.status = "exit0"
            /\ prune'.pc = "done" /\ out'.status = "exit0" /\ AnsweredYes(prune') =>
                  /\ n = Len(prune'.region_parsed)
                  /\ \A i \in 1 .. n :
                        ReportedIds(prune'.printed, prune'.retrieved[i].region)
                            = prune'.retrieved[i].items
      ]_vars

\* A confirmed prune of a then b has ended: the first delete of region a
\* failed, the unmarked definition of a was deleted after it, and the item
\* of region b was deleted too.
C12_Witness ==
    /\ prune.pc = "done"
    /\ out.status = "exit0"
    /\ prune.region_parsed = <<"a", "b">>
    /\ Len(prune.printed) = 3
    /\ prune.printed[1] = Report("a", 1, FALSE, "Too many requests")
    /\ prune.printed[2].api_id = 2 /\ prune.printed[2].result
    /\ prune.printed[3].region = "b" /\ prune.printed[3].result
    /\ remote["a"] = <<Deployed(Imported(1, <<HostX>>))>>
    /\ remote["b"] = << >>

----------------------------------------------------------------------------
\* Sequences of create and delete, claim C13.

\* One url, with its trailing slash, and one identifier: that of the
\* definition found in the region, or of one that a create has imported.
LifecycleCreate == MainCreateOf({<<HostX, Slash>>})
LifecycleDelete == MainDeleteOf({1})

InitLifecycle ==
    /\ apis \in { << >>, << Foreign(1, TRUE, TRUE) >> }
    /\ args = Args("none", NoId, NoUrl)
    /\ log = << >>
    /\ out = [status |-> "none", value |-> << >>]
    /\ createdUrls = {}
    /\ prevCreated = {}
    /\ kwargs = NoKwargs
    /\ stores = NoStores
    /\ parsed = NoParse
    /\ remote = NoRemote
    /\ prune = NoPrune

NextLifecycle == LifecycleCreate \/ LifecycleDelete

SpecLifecycle == InitLifecycle /\ [][NextLifecycle]_vars

\* self.api_list = [] in __init__; nothing appends to it or reads it, and
\* store_api only formats the line that is printed.
api_list == << >>

CreateSucceeded == args.command = "create" /\ out.status = "exit0"
DeleteSucceeded ==
    args.command = "delete" /\ out.status = "exit0" /\ out.value[1]

----------------------------------------------------------------------------
\* create without rollback, claim C20.

\* C20: a create calls import_rest_api first, create_deployment only after
\* a successful import, and reports success only after both; when the
\* deployment fails after a successful import no delete_rest_api call is
\* made, no success is reported, and the region holds what it held plus the
\* imported definition, without a stage.
C20_NoRollback ==
    [][ (args'.command = "create" /\ log' # << >>) =>
          /\ log'[1].op = "import_rest_api"
          /\ Len(log') <= 2
          /\ Len(log') = 2 => log'[1].resp.kind = "ok" /\ log'[2].op = "create_deployment"
          /\ out'.status = "exit0" => Len(log') = 2 /\ log'[2].resp.kind = "ok"
          /\ (Len(log') = 2 /\ log'[2].resp.kind # "ok") =>
                /\ DeleteCalls(log') = << >>
                /\ out'.status # "exit0"
                /\ createdUrls' = createdUrls
                /\ apis' = Append(apis, Imported(log'[1].resp.body,
                                                 StripSlash(args'.url)))
                /\ ~apis'[Len(apis')].stage
      ]_vars

\* The deployment failed after the import of a first definition: the
\* region holds it without a stage and nothing was reported as created.
C20_Witness ==
    /\ args.command = "create"
    /\ Len(log) = 2
    /\ log[1].resp.kind = "ok"
    /\ log[2].op = "create_deployment" /\ log[2].resp.kind # "ok"
    /\ out.status = "uncaught"
    /\ createdUrls = {}
    /\ Len(apis) = 1
    /\ apis[1].id = log[1].resp.body /\ ~apis[1].stage /\ HasMarker(apis[1].name)

----------------------------------------------------------------------------
\* main (fire.py:462-570) with its argument checks, parse_region and the
\* construction of the FireProx object, for the commands that bind one
\* region: create, delete, update and list.  A behaviour holds one
\* invocation.  (The loop of 'list' and 'list_all' over several regions is
\* the loop of 'prune' above with list_api in place of the deletes.)

\* if not args.command
NoCommand == ""

\* (variant: the URL is not looked at before the object is built)
MissingUrlIgnored(url) == FALSE

\* if not args.url
MissingUrl(url) == url = NoUrl

\* if not args.api_id
MissingId(api_id) == api_id = NoId

\* isinstance(region_parsed, list)
SeveralRegions(rp) == rp.type = "list"

\* args.region = region_parsed, for None or a str
RegionOf(rp) == IF rp.type = "str" THEN RegionName(rp.v) ELSE Absent

\* The call of parse_region that main made.
Parsed(spec, mode, rp) ==
    [called |-> TRUE, region |-> spec, mode |-> mode, file |-> NoFile,
     result |-> rp]

\* --region was given as spec, parse_region has not been called.
Unparsed(spec) == [NoParse EXCEPT !.region = spec]

\* delete_api as an operation of main: result, msg = fp.delete_api(api_id)
DeleteApi(region, api_id) ==
    { Outcome(fin.log, fin.apis, Exit0(<<fin.success, fin.error_msg>>), fin.success)
      : fin \in DeleteRuns(DeleteStart(region), api_id) }

\* The end of an invocation.
Ended(a, kw, pr, l, o, region, st, created) ==
    /\ args' = a
    /\ kwargs' = kw
    /\ parsed' = pr
    /\ log' = l
    /\ out' = o
    /\ apis' = region
    /\ stores' = st
    /\ createdUrls' = created
    /\ prevCreated' = createdUrls
    /\ UNCHANGED <<remote, prune>>

\* raise FireProxException(...) before anything else was done
Fail(a, kw, pr) ==
    Ended(a, kw, pr, << >>, HelpExit1, apis, stores, createdUrls)

\* fp = FireProx(**vars(args)) and the operation on it, whose outcomes on
\* the bound region are `outcomes`.
WithClient(a, kw, pr, outcomes) ==
    LET bound == [kw EXCEPT !.region = RegionOf(pr.result)]
    IN  \E o \in NewFireProx(bound, stores) :
          IF o.state = "raised"
          THEN Ended(a, bound, pr, o.log, HelpExit1, apis, o.stores, createdUrls)
          ELSE \E fin \in outcomes :
                 Ended(a, bound, pr, o.log \o fin.log, fin.out, fin.apis, o.stores,
                       IF a.command = "create" /\ fin.ok
                       THEN createdUrls \cup {a.url} ELSE createdUrls)

\* The flags, specifiers, urls and identifiers of an invocation.
MainKwargs ==
    { NoKwargs,
      Kwargs("p", Absent, Absent, Absent, Absent),
      Kwargs(Absent, "AKIA", "secret", Absent, Absent),
      Kwargs("p", "AKIA", "secret", "token", Absent) }
MainSpecs == { PyNone, PyStr(<<"a">>), PyStr(<<"a", Comma, "b">>) }
MainUrls == { NoUrl, <<HostX, Slash>> }
MainIds == { NoId, 1, 2 }

RunMissing ==
    /\ args.command = "none"
    /\ \E kw \in MainKwargs, spec \in MainSpecs :
          Fail(Args(NoCommand, NoId, NoUrl), kw, Unparsed(spec))

RunUnsupported ==
    /\ args.command = "none"
    /\ \E kw \in MainKwargs, spec \in MainSpecs :
          Fail(Args("bogus", NoId, NoUrl), kw, Unparsed(spec))

RunCreate ==
    /\ args.command = "none"
    /\ \E kw \in MainKwargs, spec \in MainSpecs, url \in MainUrls :
          LET a == Args("create", NoId, url)
          IN  IF MissingUrl(url) THEN Fail(a, kw, Unparsed(spec))
              ELSE \E rp \in ParseRegion(spec, "random", NoFile) :
                     WithClient(a, kw, Parsed(spec, "random", rp),
                                CreateApi(apis, url))

RunDelete ==
    /\ args.command = "none"
    /\ \E kw \in MainKwargs, spec \in MainSpecs, api_id \in MainIds :
          LET a == Args("delete", api_id, NoUrl)
          IN  IF MissingId(api_id) THEN Fail(a, kw, Unparsed(spec))
              ELSE \E rp \in ParseRegion(spec, "all", NoFile) :
                     IF SeveralRegions(rp)
                     THEN Fail(a, kw, Parsed(spec, "all", rp))
                     ELSE WithClient(a, kw, Parsed(spec, "all", rp),
                                     DeleteApi(apis, api_id))

RunUpdate ==
    /\ args.command = "none"
    /\ \E kw \in MainKwargs, spec \in MainSpecs, api_id \in MainIds,
          url \in MainUrls :
          LET a == Args("update", api_id, url)
          IN  IF MissingId(api_id) \/ MissingUrl(url)
              THEN Fail(a, kw, Unparsed(spec))
              ELSE \E rp \in ParseRegion(spec, "all", NoFile) :
                     IF SeveralRegions(rp)
                     THEN Fail(a, kw, Parsed(spec, "all", rp))
                     ELSE WithClient(a, kw, Parsed(spec, "all", rp),
                                     UpdateApi(apis, api_id, url))

RunList ==
    /\ args.command = "none"
    /\ \E kw \in MainKwargs, spec \in { sp \in MainSpecs : Comma \notin Range(sp.v) } :
          \E rp \in ParseRegion(spec, "all", NoFile) :
             WithClient(Args("list", NoId, NoUrl), kw, Parsed(spec, "all", rp),
                        ListApi(apis))

InitMain ==
    /\ apis \in { << >>, << Deployed(Imported(1, <<HostX>>)) >>,
                  << Deployed(Imported(1, <<HostX>>)), Foreign(2, TRUE, TRUE) >> }
    /\ args = Args("none", NoId, NoUrl)
    /\ log = << >>
    /\ out = [status |-> "none", value |-> << >>]
    /\ createdUrls = {}
    /\ prevCreated = {}
    /\ kwargs = NoKwargs
    /\ stores = Stores([x \in {"p"} |-> OldEntry], [x \in {"p"} |-> ConfigEntry("r2")])
    /\ parsed = NoParse
    /\ remote = NoRemote
    /\ prune = NoPrune

NextMain ==
    RunMissing \/ RunUnsupported \/ RunCreate \/ RunDelete \/ RunUpdate \/ RunList

SpecMain == InitMain /\ [][NextMain]_vars

----------------------------------------------------------------------------
\* Configuration errors and the exit status, claims C18 and C19.

Invoked == args.command # "none"

\* The errors that the command line alone shows: no command, a command
\* that is none of the supported ones, no url or identifier where one is
\* needed, several regions for update or delete.
CommandLineError ==
    \/ args.command = NoCommand
    \/ args.command \notin {"create", "delete", "update", "list", "list_all", "prune"}
    \/ args.command \in {"create", "update"} /\ args.url = NoUrl
    \/ args.command \in {"delete", "update"} /\ args.api_id = NoId
    \/ args.command \in {"delete", "update"} /\ Comma \in Range(parsed.region.v)

\* A get_account probe of the invocation was answered.
CredentialsResolved ==
    \E i \in 1 .. Len(log) : log[i].op = "get_account" /\ log[i].resp.kind = "ok"

\* C18 (as claimed): an invocation with a configuration error (one of the
\* command line, or credentials that do not resolve) makes no remote call,
\* prints the help text and exits with status 1.
C18_NoCallOnConfigError ==
    Invoked =>
        /\ CommandLineError \/ ~CredentialsResolved => out.status = "help_exit1"
        /\ out.status = "help_exit1" => log = << >>

\* C18 (amended): every configuration error ends the invocation with the
\* help text and exit status 1 and changes neither the region nor the
\* local files; an error of the command line does so before any remote
\* call; credentials that do not resolve do so after the get_account
\* probes of the sources tried, all failed, and with no other call.
C18_OnlyFailedProbesOnConfigError ==
    [][ Invoked' =>
          /\ CommandLineError' \/ ~CredentialsResolved' => out'.status = "help_exit1"
          /\ CommandLineError' => log' = << >>
          /\ out'.status = "help_exit1" =>
                /\ \A i \in 1 .. Len(log') :
                      log'[i].op = "get_account" /\ log'[i].resp.kind # "ok"
                /\ apis' = apis
                /\ stores' = stores
      ]_vars

\* A create with a url, a profile and keys: the probe of the profile and
\* the probe of the keys both failed, and the invocation ended with the
\* help text after these two remote calls.
C18_Witness ==
    /\ args.command = "create"
    /\ ~CommandLineError
    /\ out.status = "help_exit1"
    /\ ProbeSources(log) = <<"profile", "keys">>
    /\ Len(log) = 2

\* C19 (as claimed): an invocation without configuration error ends with
\* exit status 0, whatever the provider answers to the calls of the
\* operation.
C19_ExitZeroWithoutConfigError ==
    (Invoked /\ ~CommandLineError /\ CredentialsResolved) => out.status = "exit0"

----------------------------------------------------------------------------
\* What update changes and what it leaves, claims C21 and C22.

UpdateCalls(l) == CallsOf(l, "update_integration")

\* The definitions of the region are those of before, the same identifiers
\* in the same order, each with its name, resources, root integration and
\* stage; only the catch-all integration of api_id may hold another uri,
\* and only when update_integration was answered without error.
OnlyCatchAllOf(before, after, api_id, l) ==
    /\ Len(after) = Len(before)
    /\ \A i \in 1 .. Len(before) :
          /\ after[i] = [before[i] EXCEPT !.proxy = after[i].proxy]
          /\ after[i].proxy # before[i].proxy =>
                /\ before[i].id = api_id
                /\ Len(UpdateCalls(l)) = 1
                /\ UpdateCalls(l)[1].resp.kind = "ok"

\* C21 (as claimed): an update makes at most one update-integration call,
\* whose patch replaces the uri with the url argument followed by
\* "/{proxy}", and changes nothing in the region but the catch-all
\* integration of api_id.
C21_PatchIsUrlPlusSuffix ==
    [][ (args'.command = "update" /\ args'.api_id # NoId /\ args'.url # NoUrl) =>
          /\ Len(UpdateCalls(log')) <= 1
          /\ \A i \in 1 .. Len(UpdateCalls(log')) :
                /\ UpdateCalls(log')[i].arg.api_id = args'.api_id
                /\ UpdateCalls(log')[i].arg.value = args'.url \o <<Slash, ProxyVar>>
          /\ OnlyCatchAllOf(apis, apis', args'.api_id, log')
      ]_vars

\* C21 (amended): an update makes at most one update-integration call,
\* whose patch replaces the uri with the url argument without one trailing
\* "/", followed by "/{proxy}", and changes nothing in the region but the
\* catch-all integration of api_id: no definition is added or removed, the
\* identifier, name, root integration and stage of api_id stay, and so
\* does every other definition.
C21_OnlyCatchAllPatched ==
    [][ (args'.command = "update" /\ args'.api_id # NoId /\ args'.url # NoUrl) =>
          /\ Len(UpdateCalls(log')) <= 1
          /\ \A i \in 1 .. Len(UpdateCalls(log')) :
                LET value == UpdateCalls(log')[i].arg.value
                    url == args'.url
                    base == SubSeq(value, 1, Len(value) - 2)
                IN  /\ UpdateCalls(log')[i].arg.api_id = args'.api_id
                    /\ SubSeq(value, Len(value) - 1, Len(value)) = <<Slash, ProxyVar>>
                    /\ \/ base \o <<Slash>> = url
                       \/ base = url /\ url[Len(url)] # Slash
          /\ OnlyCatchAllOf(apis, apis', args'.api_id, log')
      ]_vars

\* update(2, "http://x/") of a region of two: the patch was
\* "http://x/{proxy}", definition 2 holds it, and definition 1 is as it was.
C21_Witness ==
    /\ args = Args("update", 2, <<HostX, Slash>>)
    /\ Len(log) = 2
    /\ log[2].arg.value = <<HostX, Slash, ProxyVar>>
    /\ log[2].resp = Ok(<<HostX, Slash, ProxyVar>>)
    /\ apis = <<Deployed(Imported(1, <<HostX>>)),
                [Foreign(2, TRUE, TRUE) EXCEPT !.proxy = <<HostX, Slash, ProxyVar>>]>>

\* C22 (as claimed): after an update that returned true on a definition
\* made by create, the root integration and the catch-all integration both
\* aim at the url of the update.
C22_BothIntegrationsRetargeted ==
    (args.command = "update" /\ out.status = "exit0" /\ out.value = TRUE
        /\ HasMarker(Lookup(apis, args.api_id).name)) =>
        LET d == Lookup(apis, args.api_id)
            target == IF args.url[Len(args.url)] = Slash
                      THEN SubSeq(args.url, 1, Len(args.url) - 1) ELSE args.url
        IN  /\ WithoutCatchAll(d.proxy) = target
            /\ d.root = target \o <<Slash>>

----------------------------------------------------------------------------
\* The result of delete, claim C23.

\* The message delete_api keeps for an answer that is an error.
ErrorText(r) ==
    IF r.kind # "ClientError" THEN "Generic error"
    ELSE IF r.code = "NotFoundException" THEN "API not found"
    ELSE IF r.code = "TooManyRequestsException" THEN "Too many requests"
    ELSE r.message

----------------------------------------------------------------------------
\* Every command, in any order.  The properties above are stated of the
\* latest invocation and are checked under the specification of its command.

Next == MainCreate \/ MainUpdate \/ MainDelete \/ MainList

Spec == Init /\ [][Next]_vars

====
